---- MODULE Spec2Model ----
(***************************************************************************)
(* Paynode aggregator: the proposal lifecycle (shared/types proposal.rs),  *)
(* the proposal, provider-intent and order repositories (shared/database), *)
(* the provider reputation ledger (shared/types reputation.rs), the Order  *)
(* object (order.rs, models/order.rs) and the tier classifier (enums.rs).  *)
(*                                                                         *)
(* Each component has its own specification over the shared variables:     *)
(*   SpecProposal    the in-memory Proposal object and the clock           *)
(*   SpecRepo        the proposals table and callers of update_status      *)
(*   SpecIntent      the provider_intents table and concurrent matchings   *)
(*   SpecReputation  ProviderReputation under arbitrary record_* calls     *)
(*   SpecOutcome     record_* calls made by observers of terminal          *)
(*                   proposals                                             *)
(*   SpecSweep       the orders table and concurrent expiry sweeps         *)
(*   SpecEligible    eligibility queries over re-declared intents          *)
(*   SpecIssue       proposals issued to providers at a fee                *)
(*   SpecOrderTable  the orders table under arbitrary update_status calls  *)
(*   SpecOrder       the in-memory Order, built new or from a stored row   *)
(*   SpecTier        OrderTier::from_amount under a choice of TierLimits   *)
(*   SpecRanking     candidate lists over intents that share a currency    *)
(*   SpecLoad        stored order rows read back as Order objects          *)
(*   SpecRefund      Order::can_refund as the order and the clock change   *)
(*   SpecCurrency    Currency codes written, read back and validated       *)
(***************************************************************************)
EXTENDS Integers, Sequences, FiniteSets, TLC

VARIABLES
    now,              \* Utc::now() / NOW(): the clock, in ticks
    proposal,         \* one in-memory Proposal (proposal.rs)
    lastOp,           \* the Proposal method called last (history)
    proposals_tbl,    \* rows of the proposals table, in insertion order
    calls,            \* per client: its update_status call in flight
    provider_intents, \* rows of the provider_intents table, by provider
    matching,         \* per matcher: its snapshot of an eligible intent, or
                      \* the result of its eligibility query
    committed,        \* per provider: sum of the amounts committed (history)
    reputation,       \* one ProviderReputation (reputation.rs)
    overflow_checks,  \* build profile: TRUE = arithmetic overflow panics
    outcome,          \* per proposal of the provider: its terminal outcome
    recorded,         \* <<observer, proposal>> pairs already reported
    orders,           \* rows of the orders table, by order id
    sweep,            \* per sweeper: orders selected and not yet updated
    expirations,      \* per order: sweep updates to EXPIRED applied (history)
    order,            \* one in-memory Order (order.rs), None before it is built
    tiering,          \* the TierLimits in force and the amounts classified
    volume_passed,    \* exact sum of the amounts given to record_success (history)
    settled_times,    \* the settlement times given to record_success (history)
    refundable,       \* the last can_refund call: when, on what, its result
    converted,        \* the last Currency written as a code and read back
    validated         \* the last currency code validated and parsed

vars == <<now, proposal, lastOp, proposals_tbl, calls, provider_intents,
          matching, committed, reputation, overflow_checks, outcome,
          recorded, orders, sweep, expirations, order, tiering, volume_passed,
          settled_times, refundable, converted, validated>>

proposalVars == <<proposal, lastOp>>
repoVars == <<proposals_tbl, calls>>
intentVars == <<provider_intents, matching, committed>>
reputationVars == <<reputation, overflow_checks, volume_passed, settled_times>>
outcomeVars == <<outcome, recorded>>
sweepVars == <<orders, sweep, expirations, order, refundable>>
tierVars == <<tiering>>
currencyVars == <<converted, validated>>

\* Option<T>: None is the empty sequence, Some(x) the one-element sequence.
None == <<>>
Some(x) == <<x>>

----------------------------------------------------------------------------
(* Bounds *)

MaxTime == 3
MaxProposals == 2
NumClients == 2
NumOrders == 2

\* The widths of u64 and u128, scaled down so that model checking reaches
\* them: U64Max stands for u64::MAX and U128Max for u128::MAX.
U64Max == 15
U128Max == 255

Times == 0..MaxTime
Clients == 1..NumClients
OrderIds == 1..NumOrders

----------------------------------------------------------------------------
(* enums.rs: ProposalStatus *)

ProposalStatus == {"Pending", "Accepted", "Rejected", "TimedOut", "Executed"}

ProposalStatus_as_str(s) ==
    CASE s = "Pending" -> "PENDING"
      [] s = "Accepted" -> "ACCEPTED"
      [] s = "Rejected" -> "REJECTED"
      [] s = "TimedOut" -> "TIMED_OUT"
      [] s = "Executed" -> "EXECUTED"

ProposalStatusStrings == {ProposalStatus_as_str(s) : s \in ProposalStatus}

----------------------------------------------------------------------------
(* proposal.rs: the Proposal object *)

\* How long a provider is bound after a proposal is issued (the test uses
\* Duration::minutes(5); here in ticks).
CommitmentWindow == 1

TxHashes == {"0xtx123"}

\* The Proposal built by a caller, as in test_proposal_lifecycle.
NewProposal(t) ==
    [status |-> "Pending",
     created_at |-> t,
     deadline |-> t + CommitmentWindow,
     accepted_at |-> None,
     executed_at |-> None,
     tx_hash |-> None]

is_expired(p) == now > p.deadline /\ p.status = "Pending"

accept(p) == [p EXCEPT !.status = "Accepted", !.accepted_at = Some(now)]

reject(p) == [p EXCEPT !.status = "Rejected"]

execute(p, tx) ==
    [p EXCEPT !.status = "Executed",
              !.executed_at = Some(now),
              !.tx_hash = Some(tx)]

InitProposal ==
    /\ proposal = NewProposal(0)
    /\ lastOp = "new"

Accept ==
    /\ proposal' = accept(proposal)
    /\ lastOp' = "accept"
    /\ UNCHANGED <<currencyVars, tierVars, now, repoVars, intentVars, reputationVars, outcomeVars, sweepVars>>

Reject ==
    /\ proposal' = reject(proposal)
    /\ lastOp' = "reject"
    /\ UNCHANGED <<currencyVars, tierVars, now, repoVars, intentVars, reputationVars, outcomeVars, sweepVars>>

Execute ==
    /\ \E tx \in TxHashes : proposal' = execute(proposal, tx)
    /\ lastOp' = "execute"
    /\ UNCHANGED <<currencyVars, tierVars, now, repoVars, intentVars, reputationVars, outcomeVars, sweepVars>>

\* The clock advances; nothing else changes.
Tick ==
    /\ now < MaxTime
    /\ now' = now + 1
    /\ UNCHANGED <<currencyVars, tierVars, proposalVars, repoVars, intentVars, reputationVars, outcomeVars, sweepVars>>

----------------------------------------------------------------------------
(* repositories/proposals.rs: the proposals table *)

IdleCall == [pc |-> "idle"]

InitRepo ==
    /\ proposals_tbl = <<>>
    /\ calls = [c \in Clients |-> IdleCall]

\* ProposalRepository::create: a plain INSERT of the row it is given.
\* proposal_id is the caller's fresh identifier.
ProposalRepository_create(tbl, order_id, provider, proposed_fee_bps, status) ==
    Append(tbl, [proposal_id |-> Len(tbl) + 1,
                 order_id |-> order_id,
                 provider |-> provider,
                 proposed_fee_bps |-> proposed_fee_bps,
                 status |-> status])

\* The UPDATE of update_status: every row with this proposal_id gets the
\* new status, whatever its current status.
ProposalRepository_update_status(tbl, proposal_id, new_status) ==
    [i \in DOMAIN tbl |->
        IF tbl[i].proposal_id = proposal_id
        THEN [tbl[i] EXCEPT !.status = new_status]
        ELSE tbl[i]]

StatusOf(tbl, proposal_id) ==
    LET i == CHOOSE i \in DOMAIN tbl : tbl[i].proposal_id = proposal_id
    IN tbl[i].status

CreateProposal(o) ==
    /\ Len(proposals_tbl) < MaxProposals
    /\ proposals_tbl' = ProposalRepository_create(proposals_tbl, o, 1, 50,
                                                  ProposalStatus_as_str("Pending"))
    /\ UNCHANGED <<currencyVars, tierVars, calls, now, proposalVars, intentVars, reputationVars, outcomeVars, sweepVars>>

\* A client calls update_status; `prior` remembers the status the row had
\* when the call was made (history, read by no action).
UpdateStatusCall(c, pid, ns) ==
    /\ calls[c].pc = "idle"
    /\ pid \in 1..Len(proposals_tbl)
    /\ calls' = [calls EXCEPT ![c] =
                    [pc |-> "sent", proposal_id |-> pid, new_status |-> ns,
                     prior |-> StatusOf(proposals_tbl, pid)]]
    /\ UNCHANGED <<currencyVars, tierVars, proposals_tbl, now, proposalVars, intentVars, reputationVars, outcomeVars, sweepVars>>

\* The database executes the statement and the call returns Ok(()).
UpdateStatusExec(c) ==
    /\ calls[c].pc = "sent"
    /\ proposals_tbl' = ProposalRepository_update_status(proposals_tbl, calls[c].proposal_id,
                                                        calls[c].new_status)
    /\ calls' = [calls EXCEPT ![c] =
                    [pc |-> "returned", proposal_id |-> calls[c].proposal_id,
                     new_status |-> calls[c].new_status,
                     prior |-> calls[c].prior, result |-> "Ok"]]
    /\ UNCHANGED <<currencyVars, tierVars, now, proposalVars, intentVars, reputationVars, outcomeVars, sweepVars>>

\* The client drops the result and may call again.
UpdateStatusDone(c) ==
    /\ calls[c].pc = "returned"
    /\ calls' = [calls EXCEPT ![c] = IdleCall]
    /\ UNCHANGED <<currencyVars, tierVars, proposals_tbl, now, proposalVars, intentVars, reputationVars, outcomeVars, sweepVars>>

----------------------------------------------------------------------------
(* provider.rs and repositories/providers.rs: provider intents *)

NumProviders == 2
NumMatchers == 2
Capacity == 9

Providers == 1..NumProviders
Matchers == 1..NumMatchers
Currencies == {"NGN", "KES"}

\* Amounts are decimal strings in the code: an integer n stands for its
\* decimal text.  OrderAmounts are the amounts of the orders being matched.
OrderAmounts == {4, 5, 10}

\* The decimal text of n, most significant digit first.
RECURSIVE Digits(_)
Digits(n) == IF n < 10 THEN <<n>> ELSE Append(Digits(n \div 10), n % 10)

\* s >= t for two texts, character by character (a proper prefix is less).
RECURSIVE TextGe(_, _)
TextGe(s, t) ==
    IF t = <<>> THEN TRUE
    ELSE IF s = <<>> THEN FALSE
    ELSE IF Head(s) # Head(t) THEN Head(s) > Head(t)
    ELSE TextGe(Tail(s), Tail(t))

\* str::parse::<u128>().unwrap_or(d): a text that is no u128 (negative, or
\* above u128::MAX) gives d.
ParseU128Or(n, d) == IF n \in 0..U128Max THEN n ELSE d

\* ProviderIntent::can_handle_amount: both texts parsed as u128, an
\* unparsable available_amount as 0 and an unparsable request as u128::MAX.
can_handle_amount(intent, amount) ==
    ParseU128Or(intent.available_amount, 0) >= ParseU128Or(amount, U128Max)

\* ProviderIntent::is_valid
is_valid(intent) == intent.is_active /\ now < intent.expires_at

\* ProviderIntent::accepts_fee
accepts_fee(intent, fee_bps) ==
    fee_bps >= intent.min_fee_bps /\ fee_bps <= intent.max_fee_bps

\* The WHERE clause of get_eligible_providers.  available_amount is a text
\* column bound to a String and $2 is a &str, so >= compares the texts.
EligibleRows(tbl, currency, min_amount) ==
    {k \in DOMAIN tbl :
        /\ tbl[k].currency = currency
        /\ TextGe(Digits(tbl[k].available_amount), Digits(min_amount))
        /\ tbl[k].is_active = TRUE
        /\ tbl[k].expires_at > now}

\* upsert_intent: INSERT .. ON CONFLICT (provider, currency) DO UPDATE SET
\* every column to the value given.
upsert_intent(tbl, intent) ==
    LET k == <<intent.provider, intent.currency>>
    IN [j \in DOMAIN tbl \cup {k} |-> IF j = k THEN intent ELSE tbl[j]]

NewIntent(p, cur) ==
    [provider |-> p, currency |-> cur, available_amount |-> Capacity,
     min_fee_bps |-> 40, max_fee_bps |-> 60, commitment_window |-> CommitmentWindow,
     is_active |-> TRUE, expires_at |-> MaxTime]

IdleMatching == [pc |-> "idle"]

InitIntent ==
    /\ provider_intents =
          upsert_intent(upsert_intent(<<>>, NewIntent(1, "NGN")), NewIntent(2, "KES"))
    /\ matching = [m \in Matchers |-> IdleMatching]
    /\ committed = [p \in Providers |-> 0]

\* A matching reads the eligible intents for its order and keeps the row of
\* the candidate it selected (one that can_handle_amount accepts).
ReadCapacity(m, cur, amount) ==
    /\ matching[m].pc = "idle"
    /\ \E k \in EligibleRows(provider_intents, cur, amount) :
          /\ can_handle_amount(provider_intents[k], amount)
          /\ matching' = [matching EXCEPT ![m] =
                [pc |-> "selected", amount |-> amount, intent |-> provider_intents[k]]]
    /\ UNCHANGED <<currencyVars, tierVars, provider_intents, committed, now, proposalVars, repoVars,
                   reputationVars, outcomeVars, sweepVars>>

\* The matching commits its amount: it writes the row it read with
\* available_amount reduced by the amount.
CommitCapacity(m) ==
    /\ matching[m].pc = "selected"
    /\ LET row == matching[m].intent
           amt == matching[m].amount
       IN /\ provider_intents' = upsert_intent(provider_intents,
                 [row EXCEPT !.available_amount = row.available_amount - amt])
          /\ committed' = [committed EXCEPT ![row.provider] = @ + amt]
    /\ matching' = [matching EXCEPT ![m] = IdleMatching]
    /\ UNCHANGED <<currencyVars, tierVars, now, proposalVars, repoVars, reputationVars, outcomeVars, sweepVars>>

----------------------------------------------------------------------------
(* provider.rs, repositories/providers.rs: eligibility of an intent *)

\* What providers declare: an available_amount below, at and above the
\* width of u128, a fee band, the active flag and an expiry.
DeclaredAmounts == {9, 10, U128Max, U128Max + 45}
FeeBands == {<<40, 60>>, <<70, 90>>}
DeclaredExpiries == {1, MaxTime}

\* What an order asks for: its amount and the fee it carries (50 is the
\* integrator fee get_integrator_fee_bps defaults to).
RequestedAmounts == {5, 10, U128Max + 1}
OrderFees == {50, 65}

\* The three predicates of ProviderIntent taken together.
PassesPredicates(intent, amount, fee_bps) ==
    /\ is_valid(intent)
    /\ can_handle_amount(intent, amount)
    /\ accepts_fee(intent, fee_bps)

\* No matcher holds the result of a query.
NoQueryHeld == \A m \in Matchers : matching[m].pc = "idle"

\* A provider declares its intent again: upsert_intent replaces the row.
UpsertIntent(k, available, band, active, expires_at) ==
    /\ NoQueryHeld
    /\ k \in DOMAIN provider_intents
    /\ provider_intents' = upsert_intent(provider_intents,
          [provider_intents[k] EXCEPT !.available_amount = available,
                                      !.min_fee_bps = band[1],
                                      !.max_fee_bps = band[2],
                                      !.is_active = active,
                                      !.expires_at = expires_at])
    /\ UNCHANGED <<currencyVars, tierVars, matching, committed, now, proposalVars, repoVars,
                   reputationVars, outcomeVars, sweepVars>>

\* The providers eligible for an order are looked up: eligible holds the
\* rows get_eligible_providers returns, passed the rows of the order's
\* currency that the three predicates accept, handled the rows that
\* can_handle_amount accepts; rows is the table as the query saw it.
QueryEligible(m, cur, amount, fee_bps) ==
    /\ NoQueryHeld
    /\ LET tbl == provider_intents
           all == {tbl[k] : k \in DOMAIN tbl}
       IN matching' = [matching EXCEPT ![m] =
             [pc |-> "listed", currency |-> cur, amount |-> amount,
              fee_bps |-> fee_bps, at |-> now, rows |-> all,
              eligible |-> {tbl[k] : k \in EligibleRows(tbl, cur, amount)},
              passed |-> {r \in all : r.currency = cur
                                        /\ PassesPredicates(r, amount, fee_bps)},
              handled |-> {r \in all : can_handle_amount(r, amount)}]]
    /\ UNCHANGED <<currencyVars, tierVars, provider_intents, committed, now, proposalVars, repoVars,
                   reputationVars, outcomeVars, sweepVars>>

\* The caller is done with the result.
ReleaseQuery(m) ==
    /\ matching[m].pc \in {"listed", "ranked"}
    /\ matching' = [matching EXCEPT ![m] = IdleMatching]
    /\ UNCHANGED <<currencyVars, tierVars, provider_intents, committed, now, proposalVars, repoVars,
                   reputationVars, outcomeVars, sweepVars>>

\* Time passes between queries.
QueryTick == NoQueryHeld /\ Tick

\* A provider registers an intent for a currency, with a fee band.
RegisterIntent(p, cur, band) ==
    /\ NoQueryHeld
    /\ provider_intents' = upsert_intent(provider_intents,
          [NewIntent(p, cur) EXCEPT !.min_fee_bps = band[1],
                                    !.max_fee_bps = band[2]])
    /\ UNCHANGED <<currencyVars, tierVars, matching, committed, now, proposalVars, repoVars,
                   reputationVars, outcomeVars, sweepVars>>

\* ORDER BY min_fee_bps ASC: the sequences of the rows of keys in which
\* min_fee_bps never decreases.  Rows with equal min_fee_bps come in any
\* order: the statement names no further sort key.
OrderByMinFee(tbl, keys) ==
    LET n == Cardinality(keys)
    IN {[i \in 1..n |-> tbl[f[i]]] :
          f \in {g \in [1..n -> keys] :
                   /\ \A i, j \in 1..n : i # j => g[i] # g[j]
                   /\ \A i, j \in 1..n :
                         i < j => tbl[g[i]].min_fee_bps <= tbl[g[j]].min_fee_bps}}

\* The candidate list for an order: get_eligible_providers returns the
\* eligible rows in the order the database produced.
RankCandidates(m, cur, amount) ==
    /\ matching[m].pc = "idle"
    /\ \E seq \in OrderByMinFee(provider_intents,
                                 EligibleRows(provider_intents, cur, amount)) :
          matching' = [matching EXCEPT ![m] =
              [pc |-> "ranked", currency |-> cur, amount |-> amount,
               candidates |-> seq]]
    /\ UNCHANGED <<currencyVars, tierVars, provider_intents, committed, now, proposalVars,
                   repoVars, reputationVars, outcomeVars, sweepVars>>

\* A proposal for order o is issued to the provider of intent k at a fee:
\* the caller builds the row and ProposalRepository::create inserts it.
IssueProposal(o, k, fee_bps) ==
    /\ Len(proposals_tbl) < MaxProposals
    /\ k \in DOMAIN provider_intents
    /\ proposals_tbl' = ProposalRepository_create(proposals_tbl, o,
          provider_intents[k].provider, fee_bps, ProposalStatus_as_str("Pending"))
    /\ UNCHANGED <<currencyVars, tierVars, calls, now, proposalVars, intentVars, reputationVars,
                   outcomeVars, sweepVars>>

----------------------------------------------------------------------------
(* reputation.rs: ProviderReputation *)

\* The number of record_* calls in one behaviour (below U64Max: a counter
\* needs 2^64 calls to wrap).
MaxCalls == 4

SettlementTimes == {1, 4, U64Max}
SettledAmounts == {1, U128Max, U128Max + 1}

\* ProviderReputation::new
ProviderReputation_new(provider) ==
    [provider |-> provider, total_orders |-> 0, successful_orders |-> 0, failed_orders |-> 0,
     no_shows |-> 0, avg_settlement_time_seconds |-> 0, total_volume |-> 0,
     last_updated |-> now]

\* record_success.  With overflow checks an overflowing operation panics
\* and the fields assigned before it keep their new values; without them
\* the arithmetic wraps.
record_success(r, t, amount) ==
    LET total == r.total_orders + 1
        succ == r.successful_orders + 1
        r1 == [r EXCEPT !.total_orders = total % (U64Max + 1)]
        r2 == [r1 EXCEPT !.successful_orders = succ % (U64Max + 1)]
        n == r2.successful_orders
        total_time == r.avg_settlement_time_seconds * ((n + U64Max) % (U64Max + 1))
        sum_time == (total_time % (U64Max + 1)) + t
        r3 == [r2 EXCEPT !.avg_settlement_time_seconds = (sum_time % (U64Max + 1)) \div n]
        volume == ParseU128Or(r.total_volume, 0) + ParseU128Or(amount, 0)
        r4 == [r3 EXCEPT !.total_volume = volume % (U128Max + 1),
                         !.last_updated = now]
    IN IF overflow_checks /\ total > U64Max THEN r
       ELSE IF overflow_checks /\ succ > U64Max THEN r1
       ELSE IF n = 0 THEN r2
       ELSE IF overflow_checks /\ (total_time > U64Max \/ sum_time > U64Max) THEN r2
       ELSE IF overflow_checks /\ volume > U128Max THEN r3
       ELSE r4

\* A plausible slip: the failure is counted but not the order.
record_failure_untallied(r) ==
    [r EXCEPT !.failed_orders = (@ + 1) % (U64Max + 1), !.last_updated = now]

record_failure(r) ==
    LET total == r.total_orders + 1
        failed == r.failed_orders + 1
        r1 == [r EXCEPT !.total_orders = total % (U64Max + 1)]
    IN IF overflow_checks /\ total > U64Max THEN r
       ELSE IF overflow_checks /\ failed > U64Max THEN r1
       ELSE [r1 EXCEPT !.failed_orders = failed % (U64Max + 1), !.last_updated = now]

\* A plausible slip: the no-show is counted as a failure as well.
record_no_show_as_failure(r) ==
    [r EXCEPT !.total_orders = (@ + 1) % (U64Max + 1),
              !.failed_orders = (@ + 1) % (U64Max + 1),
              !.no_shows = (@ + 1) % (U64Max + 1),
              !.last_updated = now]

\* A plausible slip: the no-show is counted but not the order.
record_no_show_untallied(r) ==
    [r EXCEPT !.no_shows = (@ + 1) % (U64Max + 1), !.last_updated = now]

record_no_show(r) ==
    LET total == r.total_orders + 1
        shows == r.no_shows + 1
        r1 == [r EXCEPT !.total_orders = total % (U64Max + 1)]
    IN IF overflow_checks /\ total > U64Max THEN r
       ELSE IF overflow_checks /\ shows > U64Max THEN r1
       ELSE [r1 EXCEPT !.no_shows = shows % (U64Max + 1), !.last_updated = now]

\* An f64 quotient of two counters, kept as the pair <<numerator,
\* denominator>>; 0.5 is <<1, 2>>.
Ratio(num, den) == <<num, den>>

\* success_rate: 0.5 for a provider without history.
success_rate(r) ==
    IF r.total_orders = 0 THEN Ratio(1, 2)
    ELSE Ratio(r.successful_orders, r.total_orders)

\* reliability_score: 1.0 - no_shows / total_orders, 0.5 without history.
reliability_score(r) ==
    IF r.total_orders = 0 THEN Ratio(1, 2)
    ELSE Ratio(r.total_orders - r.no_shows, r.total_orders)

InitReputation ==
    /\ reputation = ProviderReputation_new(1)
    /\ overflow_checks \in BOOLEAN
    /\ volume_passed = 0
    /\ settled_times = <<>>

\* The record_* calls made so far (each call adds one to total_orders as
\* long as no counter wraps).
CallsLeft == reputation.total_orders < MaxCalls

RecordSuccess(t, amount) ==
    /\ CallsLeft
    /\ reputation' = record_success(reputation, t, amount)
    /\ volume_passed' = volume_passed + amount
    /\ settled_times' = Append(settled_times, t)
    /\ UNCHANGED <<currencyVars, tierVars, overflow_checks, now, proposalVars, repoVars, intentVars,
                   outcomeVars, sweepVars>>

RecordFailure ==
    /\ CallsLeft
    /\ reputation' = record_failure(reputation)
    /\ UNCHANGED <<currencyVars, tierVars, volume_passed, settled_times, overflow_checks, now, proposalVars, repoVars, intentVars,
                   outcomeVars, sweepVars>>

RecordNoShow ==
    /\ CallsLeft
    /\ reputation' = record_no_show(reputation)
    /\ UNCHANGED <<currencyVars, tierVars, volume_passed, settled_times, overflow_checks, now, proposalVars, repoVars, intentVars,
                   outcomeVars, sweepVars>>

----------------------------------------------------------------------------
(* Terminal proposals of the provider and the components that report them *)

NumOutcomes == 2

OutcomeIds == 1..NumOutcomes
Observers == {"Sweeper", "Orchestrator"}
Outcomes == {"success", "failure", "no_show"}

InitOutcome ==
    /\ outcome = [p \in OutcomeIds |-> "none"]
    /\ recorded = {}

\* A proposal of the provider reaches its terminal outcome.
Resolve(p, kind) ==
    /\ outcome[p] = "none"
    /\ outcome' = [outcome EXCEPT ![p] = kind]
    /\ UNCHANGED <<currencyVars, tierVars, recorded, reputationVars, now, proposalVars, repoVars,
                   intentVars, sweepVars>>

\* An observer sees the terminal proposal and records its outcome; each
\* observer does so once per proposal.
Observe(who, p) ==
    /\ outcome[p] # "none"
    /\ <<who, p>> \notin recorded
    /\ recorded' = recorded \cup {<<who, p>>}
    /\ \/ /\ outcome[p] = "success"
          /\ \E t \in SettlementTimes, amount \in SettledAmounts :
                /\ reputation' = record_success(reputation, t, amount)
                /\ volume_passed' = volume_passed + amount
                /\ settled_times' = Append(settled_times, t)
       \/ /\ outcome[p] = "failure"
          /\ reputation' = record_failure(reputation)
          /\ UNCHANGED <<volume_passed, settled_times>>
       \/ /\ outcome[p] = "no_show"
          /\ reputation' = record_no_show(reputation)
          /\ UNCHANGED <<volume_passed, settled_times>>
    /\ UNCHANGED <<currencyVars, tierVars, outcome, overflow_checks, now, proposalVars, repoVars,
                   intentVars, sweepVars>>

----------------------------------------------------------------------------
(* enums.rs: OrderStatus *)

OrderStatus == {"Pending", "Accepted", "Fulfilled", "Refunded", "Expired"}

OrderStatus_as_str(s) ==
    CASE s = "Pending" -> "PENDING"
      [] s = "Accepted" -> "ACCEPTED"
      [] s = "Fulfilled" -> "FULFILLED"
      [] s = "Refunded" -> "REFUNDED"
      [] s = "Expired" -> "EXPIRED"

OrderStatusStrings == {OrderStatus_as_str(s) : s \in OrderStatus}

\* What the status column of a row can hold: OrderModel.status is a
\* String, so also text that names no OrderStatus.
StoredStatusStrings == OrderStatusStrings \cup {"CANCELLED"}

----------------------------------------------------------------------------
(* enums.rs: OrderTier and TierLimits *)

OrderTier == {"Alpha", "Beta", "Delta", "Omega", "Titan"}

TierLimits(alpha, beta, delta, omega) ==
    [alpha |-> alpha, beta |-> beta, delta |-> delta, omega |-> omega,
     titan |-> omega]

\* Limits in ascending order, limits that reach the width of u128, limits
\* that start at zero and limits that are not ascending.
StandardLimits == TierLimits(2, 4, 6, 8)
LimitChoices ==
    {StandardLimits,
     TierLimits(2, 4, 6, U128Max),
     TierLimits(0, 1, 2, 3),
     TierLimits(6, 4, 8, 2)}

\* Amount strings: -1 stands for text that is no unsigned number (empty,
\* signed, non-numeric), a value above U128Max for digits too long for u128.
TierAmounts == {-1} \cup (0..9) \cup {U128Max, U128Max + 1}

\* A plausible slip: falling back to the largest value, as
\* can_handle_amount does for the requested amount.
from_amount_saturating(amount, limits) ==
    LET v == ParseU128Or(amount, U128Max)
    IN IF v <= limits.alpha THEN "Alpha"
       ELSE IF v <= limits.beta THEN "Beta"
       ELSE IF v <= limits.delta THEN "Delta"
       ELSE IF v <= limits.omega THEN "Omega"
       ELSE "Titan"

\* OrderTier::from_amount
from_amount(amount, limits) ==
    LET v == ParseU128Or(amount, 0)
    IN IF v <= limits.alpha THEN "Alpha"
       ELSE IF v <= limits.beta THEN "Beta"
       ELSE IF v <= limits.delta THEN "Delta"
       ELSE IF v <= limits.omega THEN "Omega"
       ELSE "Titan"

NewTiering(limits) == [limits |-> limits, seen |-> {}]

\* An order amount is classified under the limits in force.
Classify(amount) ==
    /\ tiering' = [tiering EXCEPT !.seen = @ \cup
          {[amount |-> amount, tier |-> from_amount(amount, tiering.limits)]}]
    /\ UNCHANGED <<currencyVars, now, proposalVars, repoVars, intentVars,
                   reputationVars, outcomeVars, sweepVars>>

----------------------------------------------------------------------------
(* enums.rs: Currency; utils/lib.rs: validate_currency *)

\* The codes of the built-in variants, and the strings a code can be: the
\* built-in codes, a code of no built-in variant, a built-in code in lower
\* case, and the empty string to_domain passes for a NULL currency.
BuiltinCodes == {"NGN", "KES", "GHS", "ZAR", "USD", "EUR"}
CurrencyCodes == BuiltinCodes \cup {"XOF", "ngn", ""}

\* A Currency value: <<code>> for a built-in variant, <<"Custom", s>> for
\* Custom(s).
Custom(s) == <<"Custom", s>>
CurrencyValues == {<<c>> : c \in BuiltinCodes} \cup {Custom(s) : s \in CurrencyCodes}

\* Currency::as_str
Currency_as_str(c) == IF c[1] = "Custom" THEN c[2] ELSE c[1]

\* Currency::from_str: an unrecognised code is kept as Custom.
Currency_from_str(s) == IF s \in BuiltinCodes THEN <<s>> ELSE Custom(s)

\* validate_currency
validate_currency(currency) == currency \in {"NGN", "GHS", "KES", "USD", "EUR"}

InitCurrency ==
    /\ converted = None
    /\ validated = None

\* A Currency is written as its code and the code is read back.
ConvertCurrency(c) ==
    /\ converted' = Some([value |-> c, code |-> Currency_as_str(c),
                          back |-> Currency_from_str(Currency_as_str(c))])
    /\ UNCHANGED <<validated, tierVars, now, proposalVars, repoVars, intentVars,
                   reputationVars, outcomeVars, sweepVars>>

\* A currency code is validated and parsed.
ValidateCode(s) ==
    /\ validated' = Some([code |-> s, valid |-> validate_currency(s),
                          parsed |-> Currency_from_str(s)])
    /\ UNCHANGED <<converted, tierVars, now, proposalVars, repoVars, intentVars,
                   reputationVars, outcomeVars, sweepVars>>

----------------------------------------------------------------------------
(* repositories/orders.rs: the orders table and the expiry sweep *)

NumSweepers == 2

Sweepers == 1..NumSweepers

\* OrderRepository::create: INSERT of the row it is given.
OrderRepository_create(tbl, order_id, status, expires_at) ==
    [o \in DOMAIN tbl \cup {order_id} |->
        IF o = order_id
        THEN [status |-> status, created_at |-> now,
              expires_at |-> expires_at, updated_at |-> now]
        ELSE tbl[o]]

\* OrderRepository::update_status: UPDATE orders SET status, updated_at
\* WHERE order_id = $2, whatever the current status.
OrderRepository_update_status(tbl, order_id, new_status) ==
    [o \in DOMAIN tbl |->
        IF o = order_id
        THEN [tbl[o] EXCEPT !.status = new_status, !.updated_at = now]
        ELSE tbl[o]]

\* OrderRepository::get_expired_orders: status = 'PENDING' AND
\* expires_at < NOW() (a NULL expires_at never compares less).
get_expired_orders(tbl) ==
    {o \in DOMAIN tbl :
        /\ tbl[o].status = "PENDING"
        /\ tbl[o].expires_at # None
        /\ tbl[o].expires_at[1] < now}

IdleSweep == [pc |-> "idle", batch |-> {}]

InitSweep ==
    /\ orders = <<>>
    /\ sweep = [s \in Sweepers |-> IdleSweep]
    /\ expirations = [o \in OrderIds |-> 0]
    /\ order = None
    /\ refundable = None

\* An order is admitted (order ids are unique upstream).
CreateOrder(o, expires_at) ==
    /\ o \notin DOMAIN orders
    /\ orders' = OrderRepository_create(orders, o, "PENDING", expires_at)
    /\ UNCHANGED <<currencyVars, tierVars, sweep, expirations, order, refundable, now, proposalVars, repoVars, intentVars,
                   reputationVars, outcomeVars>>

\* A sweep selects the expired orders.
SweepSelect(s) ==
    /\ sweep[s].pc = "idle"
    /\ get_expired_orders(orders) # {}
    /\ sweep' = [sweep EXCEPT ![s] =
                    [pc |-> "updating", batch |-> get_expired_orders(orders)]]
    /\ UNCHANGED <<currencyVars, tierVars, orders, expirations, order, refundable, now, proposalVars, repoVars, intentVars,
                   reputationVars, outcomeVars>>

\* The sweep marks one selected order EXPIRED.
SweepUpdate(s, o) ==
    /\ sweep[s].pc = "updating"
    /\ o \in sweep[s].batch
    /\ orders' = OrderRepository_update_status(orders, o, "EXPIRED")
    /\ expirations' = [expirations EXCEPT ![o] = @ + 1]
    /\ sweep' = [sweep EXCEPT ![s] =
                    IF sweep[s].batch = {o} THEN IdleSweep
                    ELSE [pc |-> "updating", batch |-> sweep[s].batch \ {o}]]
    /\ UNCHANGED <<currencyVars, tierVars, order, refundable, now, proposalVars, repoVars, intentVars, reputationVars,
                   outcomeVars>>

\* Any caller sets the status of an order: update_status takes the new
\* status as a string.
UpdateOrderStatus(o, new_status) ==
    /\ o \in DOMAIN orders
    /\ orders' = OrderRepository_update_status(orders, o, new_status)
    /\ UNCHANGED <<currencyVars, tierVars, sweep, expirations, order, refundable, now, proposalVars, repoVars, intentVars,
                   reputationVars, outcomeVars>>

----------------------------------------------------------------------------
(* order.rs, models/order.rs: the Order object *)

\* Order::new: Pending, created now, with the expires_at it is given.
Order_new(expires_at) ==
    [status |-> "Pending",
     created_at |-> now,
     expires_at |-> expires_at,
     updated_at |-> now]

\* Order::update_status.
Order_update_status(ord, new_status) ==
    [ord EXCEPT !.status = new_status, !.updated_at = now]

\* Order::is_expired
Order_is_expired(ord) == now > ord.expires_at

\* A plausible slip: only a Pending order is refundable.
can_refund_pending_only(ord) ==
    Order_is_expired(ord) /\ ord.status = "Pending"

\* Order::can_refund
can_refund(ord) ==
    Order_is_expired(ord) /\ (ord.status = "Pending" \/ ord.status = "Accepted")

\* OrderModel::parse_status: an unrecognised string reads as Pending.
parse_status(s) ==
    CASE s = "PENDING" -> "Pending"
      [] s = "ACCEPTED" -> "Accepted"
      [] s = "FULFILLED" -> "Fulfilled"
      [] s = "REFUNDED" -> "Refunded"
      [] s = "EXPIRED" -> "Expired"
      [] OTHER -> "Pending"

\* OrderModel::to_domain: a NULL expires_at reads as created_at.
to_domain(row) ==
    [status |-> parse_status(row.status),
     created_at |-> row.created_at,
     expires_at |-> IF row.expires_at = None THEN row.created_at
                    ELSE row.expires_at[1],
     updated_at |-> row.updated_at]

\* The Order object is built once, by Order::new or from a stored row.
OrderNew(expires_at) ==
    /\ order = None
    /\ order' = Some(Order_new(expires_at))
    /\ UNCHANGED <<currencyVars, tierVars, orders, sweep, expirations, refundable, now, proposalVars, repoVars,
                   intentVars, reputationVars, outcomeVars>>

OrderUpdateStatus(new_status) ==
    /\ order # None
    /\ order' = Some(Order_update_status(order[1], new_status))
    /\ UNCHANGED <<currencyVars, tierVars, orders, sweep, expirations, refundable, now, proposalVars, repoVars,
                   intentVars, reputationVars, outcomeVars>>

\* can_refund is asked of the order.
CheckRefund ==
    /\ order # None
    /\ refundable' = Some([at |-> now, status |-> order[1].status,
                           expires_at |-> order[1].expires_at,
                           result |-> can_refund(order[1])])
    /\ UNCHANGED <<currencyVars, tierVars, orders, sweep, expirations, order, now, proposalVars,
                   repoVars, intentVars, reputationVars, outcomeVars>>

\* A stored row is read back as an Order.
LoadOrder(o) ==
    /\ order = None
    /\ o \in DOMAIN orders
    /\ order' = Some(to_domain(orders[o]))
    /\ UNCHANGED <<currencyVars, tierVars, orders, sweep, expirations, refundable, now, proposalVars, repoVars,
                   intentVars, reputationVars, outcomeVars>>

----------------------------------------------------------------------------
(* Specifications *)

\* The components a specification leaves alone stay in their initial state.
Init ==
    /\ now = 0
    /\ InitProposal
    /\ InitRepo
    /\ InitIntent
    /\ reputation = ProviderReputation_new(1)
    /\ overflow_checks = TRUE
    /\ volume_passed = 0
    /\ settled_times = <<>>
    /\ InitOutcome
    /\ InitSweep
    /\ tiering = NewTiering(StandardLimits)
    /\ InitCurrency

InitRep ==
    /\ now = 0
    /\ InitProposal
    /\ InitRepo
    /\ InitIntent
    /\ InitReputation
    /\ InitOutcome
    /\ InitSweep
    /\ tiering = NewTiering(StandardLimits)
    /\ InitCurrency

InitTier ==
    /\ now = 0
    /\ InitProposal
    /\ InitRepo
    /\ InitIntent
    /\ reputation = ProviderReputation_new(1)
    /\ overflow_checks = TRUE
    /\ volume_passed = 0
    /\ settled_times = <<>>
    /\ InitOutcome
    /\ InitSweep
    /\ \E limits \in LimitChoices : tiering = NewTiering(limits)
    /\ InitCurrency

NextProposal == Accept \/ Reject \/ Execute \/ Tick

NextRepo ==
    \/ \E o \in OrderIds : CreateProposal(o)
    \/ \E c \in Clients, pid \in 1..MaxProposals, ns \in ProposalStatusStrings :
          UpdateStatusCall(c, pid, ns)
    \/ \E c \in Clients : UpdateStatusExec(c)
    \/ \E c \in Clients : UpdateStatusDone(c)

NextIntent ==
    \/ \E m \in Matchers, cur \in Currencies, amount \in OrderAmounts :
          ReadCapacity(m, cur, amount)
    \/ \E m \in Matchers : CommitCapacity(m)
    \/ Tick

NextEligible ==
    \/ \E k \in Providers \X Currencies, available \in DeclaredAmounts,
          band \in FeeBands, active \in BOOLEAN, expires_at \in DeclaredExpiries :
          UpsertIntent(k, available, band, active, expires_at)
    \/ \E m \in Matchers, cur \in Currencies, amount \in RequestedAmounts,
          fee_bps \in OrderFees : QueryEligible(m, cur, amount, fee_bps)
    \/ \E m \in Matchers : ReleaseQuery(m)
    \/ QueryTick

NextIssue ==
    \/ \E k \in Providers \X Currencies, available \in DeclaredAmounts,
          band \in FeeBands, active \in BOOLEAN, expires_at \in DeclaredExpiries :
          UpsertIntent(k, available, band, active, expires_at)
    \/ \E o \in OrderIds, k \in Providers \X Currencies, fee_bps \in OrderFees :
          IssueProposal(o, k, fee_bps)

NextOrderTable ==
    \/ \E o \in OrderIds, t \in Times : CreateOrder(o, Some(t))
    \/ \E o \in OrderIds, ns \in OrderStatusStrings : UpdateOrderStatus(o, ns)
    \/ \E o \in OrderIds : CreateProposal(o)
    \/ Tick

NextOrder ==
    \/ \E t \in Times : OrderNew(t)
    \/ \E ns \in OrderStatus : OrderUpdateStatus(ns)
    \/ \E o \in OrderIds, t \in Times : CreateOrder(o, Some(t))
    \/ \E o \in OrderIds : CreateOrder(o, None)
    \/ \E o \in OrderIds : LoadOrder(o)
    \/ Tick

NextTier == \E amount \in TierAmounts : Classify(amount)

NextRanking ==
    \/ \E p \in Providers, cur \in Currencies, band \in FeeBands :
          RegisterIntent(p, cur, band)
    \/ \E m \in Matchers, cur \in Currencies, amount \in OrderAmounts :
          RankCandidates(m, cur, amount)
    \/ \E m \in Matchers : ReleaseQuery(m)

NextLoad ==
    \/ \E o \in OrderIds, t \in Times : CreateOrder(o, Some(t))
    \/ \E o \in OrderIds, ns \in StoredStatusStrings : UpdateOrderStatus(o, ns)
    \/ \E o \in OrderIds : LoadOrder(o)

NextRefund ==
    \/ \E t \in Times : OrderNew(t)
    \/ \E ns \in OrderStatus : OrderUpdateStatus(ns)
    \/ CheckRefund
    \/ Tick

NextCurrency ==
    \/ \E c \in CurrencyValues : ConvertCurrency(c)
    \/ \E s \in CurrencyCodes : ValidateCode(s)

NextReputation ==
    \/ \E t \in SettlementTimes, amount \in SettledAmounts : RecordSuccess(t, amount)
    \/ RecordFailure
    \/ RecordNoShow
    \/ Tick

NextOutcome ==
    \/ \E p \in OutcomeIds, kind \in Outcomes : Resolve(p, kind)
    \/ \E who \in Observers, p \in OutcomeIds : Observe(who, p)

NextSweep ==
    \/ \E o \in OrderIds, t \in Times : CreateOrder(o, Some(t))
    \/ \E o \in OrderIds : CreateOrder(o, None)
    \/ \E s \in Sweepers : SweepSelect(s)
    \/ \E s \in Sweepers, o \in OrderIds : SweepUpdate(s, o)
    \/ Tick

SpecProposal == Init /\ [][NextProposal]_vars
SpecRepo == Init /\ [][NextRepo]_vars
SpecIntent == Init /\ [][NextIntent]_vars
SpecEligible == Init /\ [][NextEligible]_vars
SpecIssue == Init /\ [][NextIssue]_vars
SpecOrderTable == Init /\ [][NextOrderTable]_vars
SpecOrder == Init /\ [][NextOrder]_vars
SpecTier == InitTier /\ [][NextTier]_vars
SpecRanking == Init /\ [][NextRanking]_vars
SpecLoad == Init /\ [][NextLoad]_vars
SpecRefund == Init /\ [][NextRefund]_vars
SpecCurrency == Init /\ [][NextCurrency]_vars
SpecReputation == InitRep /\ [][NextReputation]_vars
SpecOutcome == InitRep /\ [][NextOutcome]_vars
SpecSweep == Init /\ [][NextSweep]_vars

----------------------------------------------------------------------------
(* Properties *)

TerminalStatus == {"Rejected", "TimedOut", "Executed", "FailedExecution"}
TerminalStrings == {"REJECTED", "TIMED_OUT", "EXECUTED", "FAILED_EXECUTION"}
NonTerminalStrings == {"PENDING", "ACCEPTED"}

\* C1: a terminal status is final.  Once the Proposal object, or a row of
\* the proposals table, is Rejected, TimedOut, Executed or FailedExecution,
\* no step changes its status.
C1_TerminalIsFinal ==
    [][/\ proposal.status \in TerminalStatus => proposal'.status = proposal.status
       /\ \A i \in DOMAIN proposals_tbl :
             proposals_tbl[i].status \in TerminalStrings
                => proposals_tbl'[i].status = proposals_tbl[i].status]_vars

\* Two update_status calls that were both made while the row was Pending,
\* each asking for a transition out of Pending, and that have both returned.
Raced(c1, c2) ==
    /\ c1 # c2
    /\ calls[c1].pc = "returned" /\ calls[c2].pc = "returned"
    /\ calls[c1].proposal_id = calls[c2].proposal_id
    /\ calls[c1].prior = "PENDING" /\ calls[c2].prior = "PENDING"
    /\ calls[c1].new_status # "PENDING" /\ calls[c2].new_status # "PENDING"

\* C2: of two transitions applied concurrently to the same Pending
\* proposal exactly one takes effect (returns Ok) and the other fails with
\* AlreadyDecided.
C2_ExactlyOneWins ==
    \A c1, c2 \in Clients :
        Raced(c1, c2) =>
            \/ calls[c1].result = "Ok" /\ calls[c2].result = "AlreadyDecided"
            \/ calls[c2].result = "Ok" /\ calls[c1].result = "AlreadyDecided"

\* C3: under every interleaving of matchings no intent's available_amount
\* is negative and the amounts committed against an intent never sum to
\* more than the capacity it had.
C3_NoOverCommit ==
    \A k \in DOMAIN provider_intents :
        /\ provider_intents[k].available_amount >= 0
        /\ committed[provider_intents[k].provider] <= Capacity

LiveProposals(o) ==
    {i \in DOMAIN proposals_tbl :
        /\ proposals_tbl[i].order_id = o
        /\ proposals_tbl[i].status \in NonTerminalStrings}

\* C4: each order has at most one proposal in a non-terminal status
\* (Pending or Accepted).
C4_OneLiveProposalPerOrder ==
    \A o \in OrderIds : Cardinality(LiveProposals(o)) <= 1

Resolved(kind) == {p \in OutcomeIds : outcome[p] = kind}

\* C5: the reputation is updated once per terminal proposal: total_orders
\* counts the terminal proposals and each outcome counter the proposals
\* with that outcome, however many observers report them.
C5_RecordedOncePerOutcome ==
    /\ reputation.total_orders <= Cardinality({p \in OutcomeIds : outcome[p] # "none"})
    /\ reputation.successful_orders <= Cardinality(Resolved("success"))
    /\ reputation.failed_orders <= Cardinality(Resolved("failure"))
    /\ reputation.no_shows <= Cardinality(Resolved("no_show"))

\* C6: an order is transitioned to Expired by the sweep at most once, also
\* when two sweeps overlap.
C6_ExpiredOnce == \A o \in OrderIds : expirations[o] <= 1

\* C7: after any sequence of record_success, record_failure and
\* record_no_show calls, total_orders = successful_orders + failed_orders
\* + no_shows.
C7_TotalIsSum ==
    reputation.total_orders =
        reputation.successful_orders + reputation.failed_orders + reputation.no_shows

\* All three operations have acted.
C7_Witness ==
    /\ reputation.successful_orders >= 1
    /\ reputation.failed_orders >= 1
    /\ reputation.no_shows >= 1

\* C8: accept takes effect only on a Pending proposal before its deadline;
\* otherwise it leaves status and accepted_at unchanged.
C8_AcceptOnlyPendingBeforeDeadline ==
    [][(/\ lastOp' = "accept"
        /\ ~(proposal.status = "Pending" /\ now < proposal.deadline))
          => (/\ proposal'.status = proposal.status
              /\ proposal'.accepted_at = proposal.accepted_at)]_vars

\* C9: a proposal is Executed only after it was Accepted: status = Executed
\* implies accepted_at is set.
C9_ExecutedWasAccepted ==
    proposal.status = "Executed" => proposal.accepted_at # None

\* C10: reject takes effect only on a Pending proposal, so an Accepted
\* proposal stays Accepted or ends Executed or FailedExecution.
C10_RejectOnlyPending ==
    [][/\ (lastOp' = "reject" /\ proposal.status # "Pending")
             => proposal'.status = proposal.status
       /\ proposal.status = "Accepted"
             => proposal'.status \in {"Accepted", "Executed", "FailedExecution"}]_vars

\* The result of an eligibility query that a matcher holds.
Listed == {m \in Matchers : matching[m].pc = "listed"}

\* What the specification asks of an intent eligible for an order.
Eligible(intent, q) ==
    /\ intent.currency = q.currency
    /\ intent.is_active
    /\ q.at < intent.expires_at
    /\ intent.available_amount >= q.amount
    /\ intent.min_fee_bps <= q.fee_bps
    /\ q.fee_bps <= intent.max_fee_bps

\* C11: every intent returned as eligible for an order, by
\* get_eligible_providers or by is_valid, can_handle_amount and accepts_fee,
\* has the order's currency, is active and unexpired, has available_amount
\* >= the order's amount and a fee band that contains the order's fee.
C11_EligibleIsEligible ==
    \A m \in Listed :
        \A r \in matching[m].eligible \cup matching[m].passed :
            Eligible(r, matching[m])

\* The rows a step inserts into the proposals table.
Issued == {proposals_tbl'[i] : i \in DOMAIN proposals_tbl' \ DOMAIN proposals_tbl}

\* C12: every proposal is issued with a proposed_fee_bps inside the fee
\* band of the intent of its provider; issuing at a fee that accepts_fee
\* refuses creates no proposal.
C12_FeeWithinBand ==
    [][\A row \in Issued :
          \A k \in DOMAIN provider_intents :
              provider_intents[k].provider = row.provider
                  => accepts_fee(provider_intents[k], row.proposed_fee_bps)]_vars

\* The orders the sweep is to expire: Pending or Accepted, past expires_at,
\* without a Pending or Accepted proposal.
DueForExpiry ==
    {o \in DOMAIN orders :
        /\ orders[o].status \in {"PENDING", "ACCEPTED"}
        /\ orders[o].expires_at # None
        /\ orders[o].expires_at[1] < now
        /\ LiveProposals(o) = {}}

\* C13: what a sweep selects is exactly the set of orders that are Pending
\* or Accepted, have expires_at < now and have no non-terminal proposal.
C13_SweepSelection == get_expired_orders(orders) = DueForExpiry

TerminalOrderStatus == {"Fulfilled", "Refunded", "Expired"}

\* C14: an order that is Fulfilled, Refunded or Expired keeps its status
\* under every update_status call, on the Order object and on its row.
C14_OrderStatusMonotonic ==
    [][/\ (order # None /\ order[1].status \in TerminalOrderStatus)
             => order'[1].status = order[1].status
       /\ \A o \in DOMAIN orders :
             parse_status(orders[o].status) \in TerminalOrderStatus
                => orders'[o].status = orders[o].status]_vars

\* C15: every Order produced by Order::new or OrderModel::to_domain has
\* expires_at > created_at.
C15_ExpiresAfterCreation ==
    order # None => order[1].expires_at > order[1].created_at

TierRank(t) ==
    CASE t = "Alpha" -> 0 [] t = "Beta" -> 1 [] t = "Delta" -> 2
      [] t = "Omega" -> 3 [] t = "Titan" -> 4

\* C16: from_amount is monotone: for amounts a <= b of any magnitude the
\* tier of a is not higher than the tier of b.
C16_TierMonotone ==
    \A x, y \in tiering.seen :
        (0 <= x.amount /\ x.amount <= y.amount)
            => TierRank(x.tier) <= TierRank(y.tier)

\* The tier of an amount that was classified, if it was.
ClassifiedAs(amount, tier) ==
    \A x \in tiering.seen : x.amount = amount => x.tier = tier

\* C17: with alpha < beta < delta < omega an amount equal to a boundary is
\* in the lower tier and boundary + 1 in the next tier.
C17_BoundaryInclusiveUpper ==
    LET l == tiering.limits
    IN (l.alpha < l.beta /\ l.beta < l.delta /\ l.delta < l.omega) =>
          /\ ClassifiedAs(l.alpha, "Alpha") /\ ClassifiedAs(l.alpha + 1, "Beta")
          /\ ClassifiedAs(l.beta, "Beta") /\ ClassifiedAs(l.beta + 1, "Delta")
          /\ ClassifiedAs(l.delta, "Delta") /\ ClassifiedAs(l.delta + 1, "Omega")
          /\ ClassifiedAs(l.omega, "Omega") /\ ClassifiedAs(l.omega + 1, "Titan")

\* Text that parse::<u128>() refuses.
Unparsable(amount) == amount \notin 0..U128Max

\* C18: from_amount always returns a tier, and an unparsable amount is
\* classified Alpha under every TierLimits.
C18_UnparsableIsAlpha ==
    \A x \in tiering.seen :
        /\ x.tier \in OrderTier
        /\ Unparsable(x.amount) => x.tier = "Alpha"

\* Both kinds of unparsable text were classified, under limits whose
\* alpha is zero.
C18_Witness ==
    /\ tiering.limits.alpha = 0
    /\ \E x, y \in tiering.seen : x.amount < 0 /\ y.amount > U128Max

\* C19: can_handle_amount(amount) is true exactly when available_amount >=
\* amount as integers, for digit strings of any length.
C19_CanHandleIsGe ==
    \A m \in Listed :
        \A r \in matching[m].rows :
            (r \in matching[m].handled) <=> (r.available_amount >= matching[m].amount)

\* C20: after any sequence of record_success calls total_volume is the
\* exact sum of the amounts passed; no call wraps, aborts or drops one.
C20_VolumeIsExactSum == reputation.total_volume = volume_passed

\* A ratio that lies in [0, 1], and one that equals 0.5.
InUnit(q) == q[2] > 0 /\ 0 <= q[1] /\ q[1] <= q[2]
IsHalf(q) == 2 * q[1] = q[2]

\* C21 as stated: successful_orders and no_shows never exceed
\* total_orders, both rates lie in [0, 1], and both rates are 0.5 exactly
\* when total_orders = 0.
C21_RatesExactlyNeutral ==
    /\ reputation.successful_orders <= reputation.total_orders
    /\ reputation.no_shows <= reputation.total_orders
    /\ InUnit(success_rate(reputation))
    /\ InUnit(reliability_score(reputation))
    /\ (IsHalf(success_rate(reputation)) /\ IsHalf(reliability_score(reputation)))
          <=> reputation.total_orders = 0

\* C21, amended: successful_orders and no_shows never exceed total_orders,
\* both rates lie in [0, 1], and both are 0.5 when total_orders = 0 (a
\* provider with history can have both rates at 0.5 too).
C21_RatesInUnit ==
    /\ reputation.successful_orders <= reputation.total_orders
    /\ reputation.no_shows <= reputation.total_orders
    /\ InUnit(success_rate(reputation))
    /\ InUnit(reliability_score(reputation))
    /\ reputation.total_orders = 0
          => (IsHalf(success_rate(reputation)) /\ IsHalf(reliability_score(reputation)))

\* A provider with successes and no-shows whose rates are not neutral.
C21_Witness ==
    /\ reputation.successful_orders >= 1
    /\ reputation.no_shows >= 2
    /\ ~IsHalf(success_rate(reputation))

\* A step that is a record_success call: a settlement time was passed.
IsRecordSuccess == settled_times' # settled_times

\* C22: record_success(t, amount) sets avg_settlement_time_seconds to
\* (old_avg * (n - 1) + t) / n, n being successful_orders after the
\* increment; record_failure and record_no_show leave the average alone.
C22_RunningAverage ==
    [][IF IsRecordSuccess
       THEN LET t == settled_times'[Len(settled_times')]
                n == reputation.successful_orders + 1
            IN reputation'.avg_settlement_time_seconds =
                  (reputation.avg_settlement_time_seconds * (n - 1) + t) \div n
       ELSE reputation'.avg_settlement_time_seconds =
               reputation.avg_settlement_time_seconds]_vars

RECURSIVE SumSeq(_)
SumSeq(q) == IF q = <<>> THEN 0 ELSE Head(q) + SumSeq(Tail(q))

\* C23: after any sequence of calls avg_settlement_time_seconds is the
\* integer mean floor((t1 + ... + tn) / n) of the settlement times recorded.
C23_AverageIsMean ==
    settled_times # <<>> =>
        reputation.avg_settlement_time_seconds =
            SumSeq(settled_times) \div Len(settled_times)

\* The matchers that hold a candidate list.
Ranked == {m \in Matchers : matching[m].pc = "ranked"}

\* The sort key of the specification for providers without history and
\* without committed orders: the fee, then the provider address.
RankedBefore(r1, r2) ==
    \/ r1.min_fee_bps < r2.min_fee_bps
    \/ r1.min_fee_bps = r2.min_fee_bps /\ r1.provider < r2.provider

\* C24: a candidate list is sorted by the strict total order (fee, ...,
\* provider address), so two evaluations of the same query over the same
\* intents return the same sequence.
C24_RankingDeterministic ==
    /\ \A m \in Ranked :
          LET c == matching[m].candidates
          IN \A i, j \in DOMAIN c : i < j => RankedBefore(c[i], c[j])
    /\ \A m1, m2 \in Ranked :
          (matching[m1].currency = matching[m2].currency
             /\ matching[m1].amount = matching[m2].amount)
               => matching[m1].candidates = matching[m2].candidates

\* C25: loading an order whose stored status is none of PENDING, ACCEPTED,
\* FULFILLED, REFUNDED, EXPIRED fails: no Order is built from such a row.
C25_UnknownStatusFails ==
    [][(order = None /\ order' # None) =>
          \A o \in DOMAIN orders :
              order'[1] = to_domain(orders[o])
                  => orders[o].status \in OrderStatusStrings]_vars

\* C26: the settlement reference and the execution time are populated only
\* on execution: tx_hash or executed_at set implies status = Executed.
C26_TxHashOnlyOnExecuted ==
    (proposal.tx_hash # None \/ proposal.executed_at # None)
        => proposal.status = "Executed"

\* C27: can_refund is true exactly when now > expires_at and the status is
\* Pending or Accepted: never for a Fulfilled, Refunded or Expired order,
\* never before the expiry has passed.
C27_CanRefund ==
    refundable # None =>
        LET c == refundable[1]
        IN /\ c.result <=> (c.at > c.expires_at /\ c.status \in {"Pending", "Accepted"})
           /\ c.status \in TerminalOrderStatus => ~c.result
           /\ c.at <= c.expires_at => ~c.result

\* An Accepted order whose expiry has passed was found refundable.
C27_Witness ==
    /\ refundable # None
    /\ refundable[1].status = "Accepted"
    /\ refundable[1].at > refundable[1].expires_at
    /\ refundable[1].result

\* C28: each reputation operation changes only its own counters.
\* record_failure and record_no_show leave successful_orders,
\* avg_settlement_time_seconds, total_volume and provider unchanged and add
\* 1 to exactly one of failed_orders / no_shows; record_success leaves
\* failed_orders and no_shows unchanged.
C28_FrameEffects ==
    [][IF IsRecordSuccess
       THEN /\ reputation'.failed_orders = reputation.failed_orders
            /\ reputation'.no_shows = reputation.no_shows
            /\ reputation'.provider = reputation.provider
       ELSE reputation' # reputation =>
            /\ reputation'.successful_orders = reputation.successful_orders
            /\ reputation'.avg_settlement_time_seconds =
                  reputation.avg_settlement_time_seconds
            /\ reputation'.total_volume = reputation.total_volume
            /\ reputation'.provider = reputation.provider
            /\ \/ /\ reputation'.failed_orders = reputation.failed_orders + 1
                  /\ reputation'.no_shows = reputation.no_shows
               \/ /\ reputation'.no_shows = reputation.no_shows + 1
                  /\ reputation'.failed_orders = reputation.failed_orders]_vars

\* A failure and a no-show were recorded for a provider that has a
\* settlement average and a volume.
C28_Witness ==
    /\ reputation.failed_orders >= 1
    /\ reputation.no_shows >= 1
    /\ reputation.avg_settlement_time_seconds > 0
    /\ reputation.total_volume > 0

\* C29: Currency conversion round-trips: from_str(c.as_str()) = c for every
\* Currency value c, Custom(s) for any string s included.
C29_CurrencyRoundTrip ==
    converted # None => converted[1].back = converted[1].value

\* C30: validate_currency(s) is true exactly when from_str(s) is one of the
\* built-in variants NGN, KES, GHS, ZAR, USD, EUR.
C30_ValidateIsBuiltin ==
    validated # None =>
        (validated[1].valid <=> validated[1].parsed[1] # "Custom")

====
